---- MODULE Spec2Model ----
(***************************************************************************)
(* PermitCard agent runner (scripts/agent_runner.py).                      *)
(*                                                                         *)
(* One run of main(): pick the next issue, add the in-progress label, post *)
(* a start comment, ask the model API for a plan (retry loop with          *)
(* backoff), run the git commands, write the files, open the PR, report;   *)
(* on an exception inside the try block: remove the label, post a failure  *)
(* comment, re-raise.  The tracker (issues, labels, comments, pull         *)
(* requests) is shared by all runs; everything else is local to a run.     *)
(* Every external call (HTTP request, subprocess, file write) either       *)
(* succeeds or raises; which one is the environment's choice.  A request   *)
(* that raises has changed nothing in the tracker.                         *)
(***************************************************************************)
EXTENDS Integers, Sequences, FiniteSets, TLC

VARIABLES
    issues,        \* tracker: sequence of issues in creation order
    comments,      \* tracker: sequence of comments posted, oldest first
    pulls,         \* tracker: sequence of pull requests opened
    pc,            \* per run: position in main()
    issue_number,  \* per run: number of the picked issue (None before)
    attempt,       \* per run: loop variable of openai_json_response
    wait,          \* per run: last backoff delay slept, [base, jitter]
    plan,          \* per run: value returned by openai_json_response
    pr_url,        \* per run: value returned by open_pr
    tree,          \* per run: working tree, path -> content
    err,           \* per run: exception `e` caught at line 270
    raised,        \* per run: exception that left main()
    calls,         \* per run: history of external calls made, in order
    apiFailures,   \* per run: retryable answers the model API gives first
    apiFinal       \* per run: what the model API answers after them

vars == <<issues, comments, pulls, pc, issue_number, attempt, wait, plan,
          pr_url, tree, err, raised, calls, apiFailures, apiFinal>>

----------------------------------------------------------------------------
(* Bounds of the model *)

NumRuns == 2          \* runs that may be launched against the tracker
MaxIssues == 2        \* issues in the tracker of a run
MaxApiFailures == 9   \* longest streak of retryable answers of the model API
MaxFill == 51         \* leading non-eligible open items (selection check)
MaxChanges == 3       \* entries of a plan's changes (apply check)

(* Program constants *)

AGENT_LABEL == "agent"
IN_PROGRESS_LABEL == "agent-in-progress"
PER_PAGE == 50
\* Variants of the attempt budget: one short, one long.
max_attempts_Seven == 8 - 1
max_attempts_Nine == 8 + 1
max_attempts == 8
MaxBackoff == 90
MaxJitter == 2

Runs == 1..NumRuns
None == 0
NoErr == [name |-> "none", at |-> "none"]
NoWait == [base |-> 0, jitter |-> 0]

Min(a, b) == IF a <= b THEN a ELSE b

RECURSIVE Pow2(_)
Pow2(n) == IF n = 0 THEN 1 ELSE 2 * Pow2(n - 1)

RECURSIVE Count(_, _)
Count(s, x) ==
    IF s = <<>> THEN 0
    ELSE (IF s[1] = x THEN 1 ELSE 0) + Count(Tail(s), x)

----------------------------------------------------------------------------
(* Tracker *)

Issue(open, pr, labels) ==
    [state |-> IF open THEN "open" ELSE "closed",
     pull_request |-> pr, labels |-> labels]

\* GET /repos/{repo}/issues?state=open&per_page=50: the first page of the
\* open items (issues and pull requests), in the tracker's order.  Each item
\* carries its number, which is its position in creation order.
OpenNumbers(iss) == {i \in 1..Len(iss) : iss[i].state = "open"}

RECURSIVE NumbersFrom(_, _, _)
NumbersFrom(iss, i, left) ==
    IF i > Len(iss) \/ left = 0 THEN <<>>
    ELSE IF iss[i].state = "open"
         THEN <<i>> \o NumbersFrom(iss, i + 1, left - 1)
         ELSE NumbersFrom(iss, i + 1, left)

gh_list_issues(iss) == NumbersFrom(iss, 1, PER_PAGE)

\* Variant: the in-progress label is not looked at.
RECURSIVE PickFrom_IgnoresLock(_, _, _)
PickFrom_IgnoresLock(iss, page, k) ==
    IF k > Len(page) THEN None
    ELSE LET it == iss[page[k]] IN
         IF it.pull_request THEN PickFrom_IgnoresLock(iss, page, k + 1)
         ELSE IF AGENT_LABEL \in it.labels
              THEN page[k]
              ELSE PickFrom_IgnoresLock(iss, page, k + 1)

\* The loop of pick_next_issue over the listed items: skip pull requests,
\* return the first one labelled "agent" and not "agent-in-progress".
RECURSIVE PickFrom(_, _, _)
PickFrom(iss, page, k) ==
    IF k > Len(page) THEN None
    ELSE LET it == iss[page[k]] IN
         IF it.pull_request THEN PickFrom(iss, page, k + 1)
         ELSE IF AGENT_LABEL \in it.labels /\ IN_PROGRESS_LABEL \notin it.labels
              THEN page[k]
              ELSE PickFrom(iss, page, k + 1)

pick_next_issue(iss) == PickFrom(iss, gh_list_issues(iss), 1)

----------------------------------------------------------------------------
(* Model API: responses and the text they carry *)

\* Statuses the API answers: rate limit and server errors while its streak
\* of failures lasts, then a success or a client error.
TransientStatuses == {429, 500, 503}
ClientErrorStatuses == {400}

\* Variant: every error status is retried.
Retryable_AnyError(status) == status >= 400

\* line 154: r.status_code == 429 or (500 <= r.status_code < 600)
Retryable(status) == status = 429 \/ (500 <= status /\ status < 600)

\* Variant: the exponential delay without its cap.
BackoffBase_Uncapped(k) == Pow2(k)

\* line 155: min(90.0, 2 ** attempt), in seconds
BackoffBase(k) == Min(MaxBackoff, Pow2(k))

\* random.uniform(0.0, 2.0), to the second
Jitters == 0..MaxJitter

\* A text is a sequence of tokens: braces, members "key": value, or junk.
LB == [t |-> "{"]
RB == [t |-> "}"]
Junk == [t |-> "junk"]
Member(k, v) == [t |-> "member", k |-> k, v |-> v]

RequiredFields ==
    {"branch_name", "changes", "commit_message", "pr_title", "pr_body"}

\* A path is a sequence of characters; str.strip() drops the blanks at both
\* ends.
RECURSIVE LStrip(_)
LStrip(p) == IF p # <<>> /\ Head(p) = " " THEN LStrip(Tail(p)) ELSE p

RECURSIVE RStrip(_)
RStrip(p) ==
    IF p # <<>> /\ p[Len(p)] = " " THEN RStrip(SubSeq(p, 1, Len(p) - 1)) ELSE p

Strip(p) == RStrip(LStrip(p))

Change(path, content) == [path |-> path, content |-> content]

PathAB == <<"a", "/", "b">>
PathC == <<"c">>

ChangesDup == <<Change(PathAB, "X"), Change(PathAB, "Y")>>
ChangesPad == <<Change(<<" ">> \o PathAB, "X"), Change(PathC, "Z"),
                Change(PathAB \o <<" ">>, "Y")>>
ChangesBlank == <<Change(PathC, "Z"), Change(<<" ">>, "X")>>

PlanText(branch, changes) ==
    <<LB, Member("branch_name", branch), Member("changes", changes),
      Member("commit_message", "msg"), Member("pr_title", "title"),
      Member("pr_body", "body"), RB>>

\* json.loads: the text is an object when it is a pair of braces around
\* members; a key given twice keeps its last value.  Anything else raises.
IsJsonObject(text) ==
    /\ Len(text) >= 2
    /\ text[1].t = "{"
    /\ text[Len(text)].t = "}"
    /\ \A i \in 2..(Len(text) - 1) : text[i].t = "member"

JsonKeys(text) == {text[i].k : i \in 2..(Len(text) - 1)}

JsonGet(text, key) ==
    LET at == {i \in 2..(Len(text) - 1) : text[i].k = key}
        last == CHOOSE i \in at : \A j \in at : j <= i
    IN  text[last].v

\* A content block or an output item of the Responses payload.
Block(type, text) == [type |-> type, text |-> text]
Item(type, text, content) == [type |-> type, text |-> text, content |-> content]

\* lines 171-177: concatenate the text of every output_text item and of every
\* output_text content block, in order.
RECURSIVE ContentText(_)
ContentText(content) ==
    IF content = <<>> THEN <<>>
    ELSE (IF Head(content).type = "output_text" THEN Head(content).text ELSE <<>>)
         \o ContentText(Tail(content))

RECURSIVE OutputText(_)
OutputText(output) ==
    IF output = <<>> THEN <<>>
    ELSE (IF Head(output).type = "output_text" THEN Head(output).text ELSE <<>>)
         \o ContentText(Head(output).content)
         \o OutputText(Tail(output))

\* The bodies the model API may answer with a 2xx.
Bodies ==
    << \* 1: a plan in one content block, one path written twice
       <<Item("message", <<>>, <<Block("output_text", PlanText("b1", ChangesDup))>>)>>,
       \* 2: a plan split over a reasoning item and two blocks, padded paths
       <<Item("reasoning", <<Junk>>, <<Block("summary_text", <<Junk>>)>>),
         Item("message", <<>>,
              <<Block("output_text", <<LB, Member("branch_name", "b0")>>),
                Block("output_text", Tail(PlanText("b2", ChangesPad)))>>)>>,
       \* 3: a plan as the text of an output_text item, a blank path in it
       <<Item("output_text", PlanText("b1", ChangesBlank), <<>>)>>,
       \* 4: an object without pr_body
       <<Item("message", <<>>,
              <<Block("output_text",
                      <<LB, Member("branch_name", "b1"), Member("changes", <<>>),
                        Member("commit_message", "msg"),
                        Member("pr_title", "title"), RB>>)>>)>>,
       \* 5: text that is not JSON
       <<Item("message", <<>>, <<Block("output_text", <<Junk>>)>>)>>,
       \* 6: an object cut short
       <<Item("message", <<>>,
              <<Block("output_text", <<LB, Member("branch_name", "b1")>>)>>)>>,
       \* 7: no output at all
       <<>> >>

JsonLoads(text) == [k \in JsonKeys(text) |-> JsonGet(text, k)]

NoPlan == [k \in {} |-> 0]

----------------------------------------------------------------------------
(* Tracker requests *)

Urls == {"pull/1", "pull/2"}

\* Variant: the comment body is built without the interpolated URL.
Comment_NoUrl(n, kind, r, url, e) ==
    [issue |-> n, kind |-> kind, by |-> r, url |-> "", error |-> e]

Comment(n, kind, r, url, e) ==
    [issue |-> n, kind |-> kind, by |-> r, url |-> url, error |-> e]

\* Variant: the POST carries an empty list of labels and adds nothing.
WithLabel_Dropped(iss, n, label) == iss

\* POST .../labels: adds the labels to those of the issue (a set).
WithLabel(iss, n, label) ==
    [iss EXCEPT ![n].labels = @ \cup {label}]

\* Variant: the DELETE names the wrong label and removes nothing.
WithoutLabel_Kept(iss, n, label) == iss

\* DELETE .../labels/{label}
WithoutLabel(iss, n, label) ==
    [iss EXCEPT ![n].labels = @ \ {label}]

\* An exception leaves main(): inside the try block it is caught by the
\* handler of line 270, outside it ends the run.
Raise(r, e, inTry) ==
    /\ pc' = [pc EXCEPT ![r] = IF inTry THEN "Unlock" ELSE "Raised"]
    /\ err' = [err EXCEPT ![r] = IF inTry THEN e ELSE @]
    /\ raised' = [raised EXCEPT ![r] = IF inTry THEN @ ELSE e]

Goto(r, label) ==
    /\ pc' = [pc EXCEPT ![r] = label]
    /\ UNCHANGED <<err, raised>>

Called(r, name) == calls' = [calls EXCEPT ![r] = Append(@, name)]

HTTPError(at) == [name |-> "HTTPError", at |-> at]

----------------------------------------------------------------------------
(* main(), lines 227-241: selection, lock, start notice *)

\* lines 228-235
PickNextIssue(r) ==
    /\ pc[r] = "Idle"
    /\ Called(r, "list_issues")
    /\ \/ \* the listing answers
          LET issue == pick_next_issue(issues) IN
          /\ issue_number' = [issue_number EXCEPT ![r] = issue]
          /\ Goto(r, IF issue = None THEN "Exit" ELSE "Lock")
       \/ \* gh_get raises
          /\ Raise(r, HTTPError("list_issues"), FALSE)
          /\ UNCHANGED issue_number
    /\ UNCHANGED <<issues, comments, pulls, attempt, wait, plan, pr_url, tree,
                   apiFailures, apiFinal>>

\* line 238
AddLabels(r) ==
    /\ pc[r] = "Lock"
    /\ Called(r, "add_labels")
    /\ \/ /\ issues' = WithLabel(issues, issue_number[r], IN_PROGRESS_LABEL)
          /\ Goto(r, "Notify")
       \/ /\ UNCHANGED issues
          /\ Raise(r, HTTPError("add_labels"), FALSE)
    /\ UNCHANGED <<comments, pulls, issue_number, attempt, wait, plan, pr_url,
                   tree, apiFailures, apiFinal>>

\* lines 240-241
CommentStart(r) ==
    /\ pc[r] = "Notify"
    /\ Called(r, "comment_start")
    /\ \/ /\ comments' = Append(comments,
                                Comment(issue_number[r], "start", r, "", "none"))
          /\ Goto(r, "Generate")
          /\ attempt' = [attempt EXCEPT ![r] = 1]
       \/ /\ Raise(r, HTTPError("comment_start"), FALSE)
          /\ UNCHANGED <<comments, attempt>>
    /\ UNCHANGED <<issues, pulls, issue_number, wait, plan, pr_url, tree,
                   apiFailures, apiFinal>>

----------------------------------------------------------------------------
(* openai_json_response, lines 149-181 *)

Requests(r) == Count(calls[r], "openai")
Sleeps(r) == Count(calls[r], "sleep")

\* Variant: the sleep is skipped when no attempt is left.
OpenaiAttempt_NoFinalSleep(r) ==
    /\ pc[r] = "Generate"
    /\ attempt[r] <= max_attempts
    /\ \E status \in (IF Requests(r) < apiFailures[r]
                      THEN TransientStatuses ELSE {apiFinal[r].status}) :
        /\ IF Retryable(status)
           THEN \* lines 154-158: sleep, then the next pass
                \E jitter \in Jitters :
                /\ wait' = [wait EXCEPT ![r] = [base |-> BackoffBase(attempt[r]),
                                                jitter |-> jitter]]
                /\ calls' = [calls EXCEPT ![r] = @ \o
                              (IF attempt[r] < max_attempts
                               THEN <<"openai", "sleep">> ELSE <<"openai">>)]
                /\ attempt' = [attempt EXCEPT ![r] = @ + 1]
                /\ UNCHANGED <<pc, err, raised, plan>>
           ELSE /\ Called(r, "openai")
                /\ wait' = [wait EXCEPT ![r] = NoWait]
                /\ UNCHANGED attempt
                /\ IF status >= 400
                   THEN \* lines 161-166: raise_for_status
                        /\ Raise(r, HTTPError("openai"), TRUE)
                        /\ UNCHANGED plan
                   ELSE \* lines 168-179
                        LET out_text == OutputText(Bodies[apiFinal[r].body]) IN
                        IF IsJsonObject(out_text)
                        THEN /\ plan' = [plan EXCEPT ![r] = JsonLoads(out_text)]
                             /\ Goto(r, "Plan")
                        ELSE /\ Raise(r, [name |-> "JSONDecodeError",
                                          at |-> "openai"], TRUE)
                             /\ UNCHANGED plan
    /\ UNCHANGED <<issues, comments, pulls, issue_number, pr_url, tree,
                   apiFailures, apiFinal>>

\* lines 150-179: one pass of the loop body.  The API answers a retryable
\* status while its streak lasts, and some other status after it.
OpenaiAttempt(r) ==
    /\ pc[r] = "Generate"
    /\ attempt[r] <= max_attempts
    /\ \E status \in (IF Requests(r) < apiFailures[r]
                      THEN TransientStatuses ELSE {apiFinal[r].status}) :
        /\ IF Retryable(status)
           THEN \* lines 154-158: sleep, then the next pass
                \E jitter \in Jitters :
                /\ wait' = [wait EXCEPT ![r] = [base |-> BackoffBase(attempt[r]),
                                                jitter |-> jitter]]
                /\ calls' = [calls EXCEPT ![r] = @ \o <<"openai", "sleep">>]
                /\ attempt' = [attempt EXCEPT ![r] = @ + 1]
                /\ UNCHANGED <<pc, err, raised, plan>>
           ELSE /\ Called(r, "openai")
                /\ wait' = [wait EXCEPT ![r] = NoWait]
                /\ UNCHANGED attempt
                /\ IF status >= 400
                   THEN \* lines 161-166: raise_for_status
                        /\ Raise(r, HTTPError("openai"), TRUE)
                        /\ UNCHANGED plan
                   ELSE \* lines 168-179
                        LET out_text == OutputText(Bodies[apiFinal[r].body]) IN
                        IF IsJsonObject(out_text)
                        THEN /\ plan' = [plan EXCEPT ![r] = JsonLoads(out_text)]
                             /\ Goto(r, "Plan")
                        ELSE /\ Raise(r, [name |-> "JSONDecodeError",
                                          at |-> "openai"], TRUE)
                             /\ UNCHANGED plan
    /\ UNCHANGED <<issues, comments, pulls, issue_number, pr_url, tree,
                   apiFailures, apiFinal>>

\* line 181: the loop ran out of attempts
OpenaiExhausted(r) ==
    /\ pc[r] = "Generate"
    /\ attempt[r] > max_attempts
    /\ Raise(r, [name |-> "RuntimeError", at |-> "openai"], TRUE)
    /\ wait' = [wait EXCEPT ![r] = NoWait]
    /\ UNCHANGED <<issues, comments, pulls, issue_number, attempt, plan, pr_url,
                   tree, calls, apiFailures, apiFinal>>

----------------------------------------------------------------------------
(* main(), lines 247-268: the plan, git, the files, the pull request *)

\* Variant: the fields are read where they are used, after the git identity
\* was configured.
ExtractPlan_Late(r) ==
    /\ pc[r] = "Plan"
    /\ IF RequiredFields \subseteq DOMAIN plan[r]
       THEN Goto(r, "GitConfig") /\ UNCHANGED calls
       ELSE /\ Raise(r, [name |-> "KeyError", at |-> "plan"], TRUE)
            /\ calls' = [calls EXCEPT ![r] =
                            @ \o <<"git_config_name", "git_config_email">>]
    /\ UNCHANGED <<issues, comments, pulls, issue_number, attempt, wait, plan,
                   pr_url, tree, apiFailures, apiFinal>>

\* lines 247-251: a missing key raises KeyError
ExtractPlan(r) ==
    /\ pc[r] = "Plan"
    /\ IF RequiredFields \subseteq DOMAIN plan[r]
       THEN Goto(r, "GitConfig")
       ELSE Raise(r, [name |-> "KeyError", at |-> "plan"], TRUE)
    /\ UNCHANGED <<issues, comments, pulls, issue_number, attempt, wait, plan,
                   pr_url, tree, calls, apiFailures, apiFinal>>

\* Variant: a command that exits non-zero is run again.
RunCmd_Retried(r, name, next) ==
    /\ Called(r, name)
    /\ \/ Goto(r, next)
       \/ UNCHANGED <<pc, err, raised>>
    /\ UNCHANGED <<issues, comments, pulls, issue_number, attempt, wait, plan,
                   pr_url, tree, apiFailures, apiFinal>>

\* run(cmd), line 56: the command exits 0 or check_call raises
RunCmd(r, name, next) ==
    /\ Called(r, name)
    /\ \/ Goto(r, next)
       \/ Raise(r, [name |-> "CalledProcessError", at |-> name], TRUE)
    /\ UNCHANGED <<issues, comments, pulls, issue_number, attempt, wait, plan,
                   pr_url, tree, apiFailures, apiFinal>>

\* lines 59-61 (called at line 254)
GitConfigName(r) == pc[r] = "GitConfig" /\ RunCmd(r, "git_config_name", "GitConfigEmail")
GitConfigEmail(r) == pc[r] = "GitConfigEmail" /\ RunCmd(r, "git_config_email", "Checkout")

\* Variant: the call of apply_changes is left out.
GitCheckout_SkipsApply(r) == pc[r] = "Checkout" /\ RunCmd(r, "git_checkout", "GitAdd")

\* line 255
GitCheckout(r) == pc[r] = "Checkout" /\ RunCmd(r, "git_checkout", "Apply")

\* Variant: the file is opened for exclusive creation, a path that exists is
\* left as it is.
RECURSIVE WriteEntries_KeepsExisting(_, _, _)
WriteEntries_KeepsExisting(t, changes, n) ==
    IF n = 0 THEN t
    ELSE LET ch == changes[n]
             before == WriteEntries_KeepsExisting(t, changes, n - 1)
         IN  before @@ (Strip(ch.path) :> ch.content)

\* lines 214-224: the first n entries written, each over the whole file
RECURSIVE WriteEntries(_, _, _)
WriteEntries(t, changes, n) ==
    IF n = 0 THEN t
    ELSE LET ch == changes[n]
             before == WriteEntries(t, changes, n - 1)
         IN  (Strip(ch.path) :> ch.content) @@ before

\* open() of an empty path raises
BlankAt(changes) == {i \in 1..Len(changes) : Strip(changes[i].path) = <<>>}

\* line 257: every entry is written, or entry `stop` raises after the
\* entries before it were written
ApplyChanges(r) ==
    /\ pc[r] = "Apply"
    /\ Called(r, "apply")
    /\ LET changes == plan[r]["changes"] IN
       \E stop \in 0..Len(changes) :
        /\ \A i \in BlankAt(changes) : stop # 0 /\ stop <= i
        /\ IF stop = 0
           THEN /\ tree' = [tree EXCEPT ![r] = WriteEntries(@, changes, Len(changes))]
                /\ Goto(r, "GitAdd")
           ELSE /\ tree' = [tree EXCEPT ![r] = WriteEntries(@, changes, stop - 1)]
                /\ Raise(r, [name |-> "OSError", at |-> "apply"], TRUE)
    /\ UNCHANGED <<issues, comments, pulls, issue_number, attempt, wait, plan,
                   pr_url, apiFailures, apiFinal>>

\* Variant: the commit command is left out.
GitAdd_SkipsCommit(r) == pc[r] = "GitAdd" /\ RunCmd(r, "git_add", "Push")

\* lines 259-261
GitAdd(r) == pc[r] = "GitAdd" /\ RunCmd(r, "git_add", "Commit")
GitCommit(r) == pc[r] = "Commit" /\ RunCmd(r, "git_commit", "Push")
GitPush(r) == pc[r] = "Push" /\ RunCmd(r, "git_push", "OpenPR")

\* lines 106-111 (called at line 263): pr.get("html_url", "")
OpenPr(r) ==
    /\ pc[r] = "OpenPR"
    /\ Called(r, "open_pr")
    /\ \/ \E html_url \in Urls \cup {""} :
          /\ pulls' = Append(pulls, [head |-> plan[r]["branch_name"],
                                     title |-> plan[r]["pr_title"],
                                     body |-> plan[r]["pr_body"],
                                     by |-> r, html_url |-> html_url])
          /\ pr_url' = [pr_url EXCEPT ![r] = html_url]
          /\ Goto(r, "Report")
       \/ /\ Raise(r, HTTPError("open_pr"), TRUE)
          /\ UNCHANGED <<pulls, pr_url>>
    /\ UNCHANGED <<issues, comments, issue_number, attempt, wait, plan, tree,
                   apiFailures, apiFinal>>

\* lines 265-268: still inside the try block
CommentSuccess(r) ==
    /\ pc[r] = "Report"
    /\ Called(r, "comment_success")
    /\ \/ /\ comments' = Append(comments,
                Comment(issue_number[r], "success", r, pr_url[r], "none"))
          /\ Goto(r, "Done")
       \/ /\ Raise(r, HTTPError("comment_success"), TRUE)
          /\ UNCHANGED comments
    /\ UNCHANGED <<issues, pulls, issue_number, attempt, wait, plan, pr_url,
                   tree, apiFailures, apiFinal>>

----------------------------------------------------------------------------
(* main(), lines 270-274: the handler *)

\* line 272, remove_label (lines 94-103): whatever the DELETE answers (done,
\* not found, failure) the exception is swallowed and the handler goes on
RemoveLabel(r) ==
    /\ pc[r] = "Unlock"
    /\ \/ \* 2xx: the label was there and is removed
          /\ IN_PROGRESS_LABEL \in issues[issue_number[r]].labels
          /\ issues' = WithoutLabel(issues, issue_number[r], IN_PROGRESS_LABEL)
          /\ Called(r, "remove_label")
       \/ \* 404 (label not there) or a failed request: except ... pass
          /\ UNCHANGED issues
          /\ calls' = [calls EXCEPT ![r] = @ \o
                (IF IN_PROGRESS_LABEL \in issues[issue_number[r]].labels
                 THEN <<"remove_label", "ignored_error">>
                 ELSE <<"remove_label", "not_found", "ignored_error">>)]
    /\ Goto(r, "FailComment")
    /\ UNCHANGED <<comments, pulls, issue_number, attempt, wait, plan, pr_url,
                   tree, apiFailures, apiFinal>>

\* lines 273-274: the comment, then `raise`; a failing comment raises its own
\* exception out of the handler
CommentFailure(r) ==
    /\ pc[r] = "FailComment"
    /\ Called(r, "comment_failure")
    /\ \/ /\ comments' = Append(comments,
                Comment(issue_number[r], "failure", r, "", err[r].name))
          /\ Raise(r, err[r], FALSE)
       \/ /\ Raise(r, HTTPError("comment_failure"), FALSE)
          /\ UNCHANGED comments
    /\ UNCHANGED <<issues, pulls, issue_number, attempt, wait, plan, pr_url,
                   tree, apiFailures, apiFinal>>

----------------------------------------------------------------------------
(* Specifications *)

\* The answers of the model API after its streak of failures.
ApiFinals ==
    {[status |-> s, body |-> 1] : s \in ClientErrorStatuses}
    \cup {[status |-> 200, body |-> b] : b \in 1..Len(Bodies)}

IssueKinds ==
    {Issue(TRUE, FALSE, {AGENT_LABEL}),
     Issue(TRUE, FALSE, {AGENT_LABEL, IN_PROGRESS_LABEL}),
     Issue(TRUE, TRUE, {AGENT_LABEL}),
     Issue(FALSE, FALSE, {AGENT_LABEL})}

Trackers == UNION {[1..n -> IssueKinds] : n \in 0..MaxIssues}

InitTree == (PathAB :> "old")

InitRun(launched) ==
    /\ comments = <<>>
    /\ pulls = <<>>
    /\ pc = [r \in Runs |-> IF r \in launched THEN "Idle" ELSE "Off"]
    /\ issue_number = [r \in Runs |-> None]
    /\ attempt = [r \in Runs |-> 0]
    /\ wait = [r \in Runs |-> NoWait]
    /\ plan = [r \in Runs |-> NoPlan]
    /\ pr_url = [r \in Runs |-> ""]
    /\ tree = [r \in Runs |-> InitTree]
    /\ err = [r \in Runs |-> NoErr]
    /\ raised = [r \in Runs |-> NoErr]
    /\ calls = [r \in Runs |-> <<>>]

\* One run, started by one CI job.
Init ==
    /\ issues \in Trackers
    /\ InitRun({1})
    /\ \E n \in 0..MaxApiFailures :
         apiFailures = [r \in Runs |-> IF r = 1 THEN n ELSE 0]
    /\ \E f \in ApiFinals :
         apiFinal = [r \in Runs |-> IF r = 1 THEN f ELSE [status |-> 200, body |-> 1]]

Step(r) ==
    \/ PickNextIssue(r)
    \/ AddLabels(r)
    \/ CommentStart(r)
    \/ OpenaiAttempt(r)
    \/ OpenaiExhausted(r)
    \/ ExtractPlan(r)
    \/ GitConfigName(r)
    \/ GitConfigEmail(r)
    \/ GitCheckout(r)
    \/ ApplyChanges(r)
    \/ GitAdd(r)
    \/ GitCommit(r)
    \/ GitPush(r)
    \/ OpenPr(r)
    \/ CommentSuccess(r)
    \/ RemoveLabel(r)
    \/ CommentFailure(r)

Next == \E r \in Runs : Step(r)

Spec == Init /\ [][Next]_vars

\* One run when every external call returns: a run that can take a step does
\* take one.
LiveTrackers ==
    {<<>>,
     <<Issue(TRUE, FALSE, {AGENT_LABEL})>>,
     <<Issue(TRUE, FALSE, {AGENT_LABEL, IN_PROGRESS_LABEL}),
       Issue(TRUE, FALSE, {AGENT_LABEL})>>,
     <<Issue(TRUE, FALSE, {AGENT_LABEL}), Issue(TRUE, TRUE, {AGENT_LABEL})>>}

InitLive ==
    /\ issues \in LiveTrackers
    /\ InitRun({1})
    /\ \E n \in 0..MaxApiFailures :
         apiFailures = [r \in Runs |-> IF r = 1 THEN n ELSE 0]
    /\ \E f \in ApiFinals :
         apiFinal = [r \in Runs |-> IF r = 1 THEN f ELSE [status |-> 200, body |-> 1]]

SpecLive == InitLive /\ [][Next]_vars /\ WF_vars(Next)

\* Selection over trackers longer than one page: a run of open items that are
\* not eligible, then a short tail.
FillKinds ==
    {Issue(TRUE, FALSE, {AGENT_LABEL, IN_PROGRESS_LABEL}),
     Issue(TRUE, FALSE, {}),
     Issue(TRUE, TRUE, {AGENT_LABEL})}

InitSelect ==
    /\ \E n \in 0..MaxFill, kind \in FillKinds, tail \in Trackers :
         issues = [i \in 1..n |-> kind] \o tail
    /\ InitRun({1})
    /\ apiFailures = [r \in Runs |-> 0]
    /\ apiFinal = [r \in Runs |-> [status |-> 200, body |-> 1]]

NextSelect == \E r \in Runs : PickNextIssue(r)

\* Two CI jobs fire close together: two runs against one tracker, each in
\* its own checkout, their calls interleaved in any order.
ConcTrackers ==
    {<<Issue(TRUE, FALSE, {AGENT_LABEL})>>,
     <<Issue(TRUE, FALSE, {AGENT_LABEL}), Issue(TRUE, FALSE, {AGENT_LABEL})>>}

ConcScripts ==
    {[failures |-> 0, final |-> [status |-> 200, body |-> 1]],
     [failures |-> 0, final |-> [status |-> 400, body |-> 1]],
     [failures |-> max_attempts, final |-> [status |-> 200, body |-> 1]]}

InitConc ==
    /\ issues \in ConcTrackers
    /\ InitRun({1, 2})
    /\ \E s1 \in ConcScripts, s2 \in {s \in ConcScripts : s.failures = 0} :
         /\ apiFailures = [r \in Runs |-> IF r = 1 THEN s1.failures
                                          ELSE IF r = 2 THEN s2.failures ELSE 0]
         /\ apiFinal = [r \in Runs |-> IF r = 1 THEN s1.final
                                       ELSE IF r = 2 THEN s2.final
                                       ELSE [status |-> 200, body |-> 1]]

SpecConc == InitConc /\ [][Next]_vars

\* apply_changes over the plans a model may return: a run that stands before
\* line 257 with any short sequence of changes.
ApplyPaths == {PathC, <<" ">> \o PathC, PathC \o <<" ">>, PathAB, <<" ">>}
ApplyEntries == {Change(p, c) : p \in ApplyPaths, c \in {"X", "Y"}}
ApplyInputs == UNION {[1..n -> ApplyEntries] : n \in 0..MaxChanges}

InitApply ==
    /\ issues = <<Issue(TRUE, FALSE, {AGENT_LABEL, IN_PROGRESS_LABEL})>>
    /\ comments = <<Comment(1, "start", 1, "", "none")>>
    /\ pulls = <<>>
    /\ pc = [r \in Runs |-> IF r = 1 THEN "Apply" ELSE "Off"]
    /\ issue_number = [r \in Runs |-> IF r = 1 THEN 1 ELSE None]
    /\ attempt = [r \in Runs |-> IF r = 1 THEN 1 ELSE 0]
    /\ wait = [r \in Runs |-> NoWait]
    /\ \E changes \in ApplyInputs :
         plan = [r \in Runs |-> IF r = 1 THEN JsonLoads(PlanText("b1", changes))
                                ELSE NoPlan]
    /\ pr_url = [r \in Runs |-> ""]
    /\ tree = [r \in Runs |-> InitTree]
    /\ err = [r \in Runs |-> NoErr]
    /\ raised = [r \in Runs |-> NoErr]
    /\ calls = [r \in Runs |->
                 IF r = 1 THEN <<"list_issues", "add_labels", "comment_start",
                                 "openai", "git_config_name", "git_config_email",
                                 "git_checkout">>
                 ELSE <<>>]
    /\ apiFailures = [r \in Runs |-> 0]
    /\ apiFinal = [r \in Runs |-> [status |-> 200, body |-> 1]]

NextApply == \E r \in Runs : ApplyChanges(r)

SpecApply == InitApply /\ [][NextApply]_vars

SpecSelect == InitSelect /\ [][NextSelect]_vars

----------------------------------------------------------------------------
(* Vocabulary of the properties *)

Has(s, x) == \E i \in 1..Len(s) : s[i] = x

\* position of the first x in s (0 when there is none)
First(s, x) ==
    IF Has(s, x) THEN CHOOSE i \in 1..Len(s) : s[i] = x /\ \A j \in 1..(i - 1) : s[j] # x
    ELSE 0

Locked(n) == IN_PROGRESS_LABEL \in issues[n].labels

\* items a run may take: open, not a pull request, work label, no lock label
Eligible(iss) ==
    {i \in 1..Len(iss) :
        /\ iss[i].state = "open"
        /\ ~iss[i].pull_request
        /\ AGENT_LABEL \in iss[i].labels
        /\ IN_PROGRESS_LABEL \notin iss[i].labels}

\* lock(id) of run r succeeded (the start notice is what follows it)
LockAdded(r) == Has(calls[r], "comment_start")

PublishSteps == {"git_checkout", "git_add", "git_commit", "git_push", "open_pr"}

CommentsOf(r, kind) ==
    {i \in 1..Len(comments) : comments[i].by = r /\ comments[i].kind = kind}

\* generatePlan is over: the plan was returned and its fields read, or
\* generation raised
PlanReturned(r) ==
    pc[r] \in {"GitConfig", "GitConfigEmail", "Checkout", "Apply", "GitAdd",
               "Commit", "Push", "OpenPR", "Report", "Done"}
    \/ (pc[r] \in {"Unlock", "FailComment", "Raised"}
        /\ err[r].at \notin {"none", "openai", "plan"})

GenerationFailed(r) == err[r].at \in {"openai", "plan"}

\* the answer the API gives after its streak is a 2xx with a valid plan
ValidBody(b) ==
    /\ IsJsonObject(OutputText(Bodies[b]))
    /\ RequiredFields \subseteq JsonKeys(OutputText(Bodies[b]))

FinalIsPlan(r) == apiFinal[r].status = 200 /\ ValidBody(apiFinal[r].body)

----------------------------------------------------------------------------
(* Failure unwind and reporting *)

\* C1: a run that fails after the tracker applied its lock request has called
\* unlock and posted (attempted) the failure comment before it exits, and
\* leaves the item without the lock label.
C1_FailedRunUnlocks ==
    \A r \in Runs :
        (pc[r] = "Raised" /\ LockAdded(r))
        => /\ Has(calls[r], "remove_label")
           /\ Has(calls[r], "comment_failure")
           /\ ~Locked(issue_number[r])

C3_NoUnwindAfterPublish ==
    \A r \in Runs :
        (\E j \in 1..Len(pulls) : pulls[j].by = r)
        => /\ ~Has(calls[r], "remove_label")
           /\ ~Has(calls[r], "comment_failure")
           /\ Locked(issue_number[r])

\* C4: a run that reaches Done on an item carrying only the work label posted
\* exactly one comment before the first model request and exactly one after
\* open_pr, both on that item, and no other; unlock was never called and the
\* lock label is on the item; the URL of the success comment is the one the
\* tracker returned for the pull request of the run.
C4_DoneRun ==
    \A r \in Runs :
        (pc[r] = "Done"
         /\ issues[issue_number[r]].labels \ {IN_PROGRESS_LABEL} = {AGENT_LABEL})
        => /\ Cardinality(CommentsOf(r, "start")) = 1
           /\ Cardinality(CommentsOf(r, "success")) = 1
           /\ CommentsOf(r, "failure") = {}
           /\ \A i \in 1..Len(comments) :
                comments[i].by = r => comments[i].issue = issue_number[r]
           /\ Count(calls[r], "comment_start") = 1
           /\ Count(calls[r], "comment_success") = 1
           /\ First(calls[r], "comment_start") < First(calls[r], "openai")
           /\ First(calls[r], "open_pr") < First(calls[r], "comment_success")
           /\ ~Has(calls[r], "remove_label")
           /\ Locked(issue_number[r])
           /\ Cardinality({j \in 1..Len(pulls) : pulls[j].by = r}) = 1
           /\ \A i \in CommentsOf(r, "success"), j \in 1..Len(pulls) :
                pulls[j].by = r => comments[i].url = pulls[j].html_url

C4_Witness ==
    \E r \in Runs :
        /\ pc[r] = "Done"
        /\ issue_number[r] = 2
        /\ \E i \in CommentsOf(r, "success") : comments[i].url = "pull/2"
        /\ Requests(r) = 3

----------------------------------------------------------------------------
(* Model client: attempts and backoff *)

GenerationOver(r) ==
    PlanReturned(r)
    \/ (pc[r] \in {"Unlock", "FailComment", "Raised"} /\ GenerationFailed(r))

\* C5 as stated: for N <= 8, N retryable answers and then a 2xx with a valid
\* plan make generatePlan send exactly N+1 requests and return the plan.
C5_RetriesThenPlan ==
    \A r \in Runs :
        (GenerationOver(r) /\ apiFailures[r] <= 8 /\ FinalIsPlan(r))
        => /\ Requests(r) = apiFailures[r] + 1
           /\ PlanReturned(r)
           /\ DOMAIN plan[r] = RequiredFields

\* C5 amended: the same for N <= 7.
C5_RetriesThenPlanUpToSeven ==
    \A r \in Runs :
        (GenerationOver(r) /\ apiFailures[r] <= 7 /\ FinalIsPlan(r))
        => /\ Requests(r) = apiFailures[r] + 1
           /\ PlanReturned(r)
           /\ DOMAIN plan[r] = RequiredFields
           /\ plan[r]["branch_name"] \in {"b1", "b2"}

C5_Witness ==
    \E r \in Runs :
        /\ apiFailures[r] = 7
        /\ PlanReturned(r)
        /\ Requests(r) = 8
        /\ plan[r]["branch_name"] = "b2"

\* C6: no run ever sends a 9th model request, and when the API answers 8
\* retryable responses in a row generation fails with the exhaustion error
\* (RuntimeError) after exactly 8 requests.
C6_NoNinthRequest ==
    \A r \in Runs :
        /\ Requests(r) <= 8
        /\ (GenerationOver(r) /\ apiFailures[r] >= 8)
           => /\ Requests(r) = 8
              /\ err[r] = [name |-> "RuntimeError", at |-> "openai"]

C6_Witness ==
    \E r \in Runs :
        /\ pc[r] = "Raised"
        /\ apiFailures[r] = 9
        /\ Requests(r) = 8
        /\ raised[r].name = "RuntimeError"

BaseDelays == <<2, 4, 8, 16, 32, 64, 90, 90>>

\* the delay in `wait` was taken after attempt number attempt - 1
DelayAsStated(r) ==
    wait[r] # NoWait =>
        LET k == attempt[r] - 1 IN
        /\ k \in 1..8
        /\ wait[r].base = Min(90, Pow2(k))
        /\ wait[r].base = BaseDelays[k]
        /\ wait[r].jitter \in 0..2
        /\ wait[r].base + wait[r].jitter <= 90 + 2

\* C7: the delay after the k-th attempt is min(90, 2^k) seconds, that is 2, 4,
\* 8, 16, 32, 64, 90, 90, plus a jitter in [0, 2]; it is at most 92 s and the
\* base delay never decreases from one attempt to the next.
C7_BackoffDelays ==
    /\ [](\A r \in Runs : DelayAsStated(r))
    /\ [][\A r \in Runs :
            (wait[r] # NoWait /\ wait'[r] # NoWait)
            => wait'[r].base >= wait[r].base]_vars

C7_Witness ==
    \E r \in Runs :
        /\ attempt[r] = 9
        /\ wait[r] = [base |-> 90, jitter |-> 2]
        /\ Sleeps(r) = 8

\* the answer after the streak is a 4xx other than 429, or a 2xx whose text
\* does not parse
FinalNonRetryable(r) ==
    \/ apiFinal[r].status \in (400..499) \ {429}
    \/ /\ apiFinal[r].status \in 200..299
       /\ ~IsJsonObject(OutputText(Bodies[apiFinal[r].body]))

\* C8: once a run has received a non-retryable answer, generation has failed
\* on it: no request and no backoff wait follows it, the plan is not set, the
\* handler runs (unlock, failure comment) and the run ends raising.
C8_NonRetryableFailsAtOnce ==
    \A r \in Runs :
        (Requests(r) > apiFailures[r] /\ FinalNonRetryable(r))
        => /\ Requests(r) = apiFailures[r] + 1
           /\ Sleeps(r) = apiFailures[r]
           /\ pc[r] \in {"Unlock", "FailComment", "Raised"}
           /\ err[r].at = "openai"
           /\ err[r].name = (IF apiFinal[r].status >= 400 THEN "HTTPError"
                             ELSE "JSONDecodeError")
           /\ DOMAIN plan[r] = {}
           /\ pc[r] = "Raised" => /\ Count(calls[r], "remove_label") = 1
                                  /\ Count(calls[r], "comment_failure") = 1

C8_Witness ==
    \E r \in Runs :
        /\ pc[r] = "Raised"
        /\ apiFinal[r].status = 400
        /\ apiFailures[r] = 0
        /\ Requests(r) = 1
        /\ Sleeps(r) = 0
        /\ CommentsOf(r, "failure") # {}

----------------------------------------------------------------------------
(* Selection *)

\* C9: selection returns the lowest-numbered eligible item of the tracker,
\* and none only when the tracker holds no eligible item.
C9_LowestEligible ==
    \A r \in Runs :
        (pc[r] \in {"Lock", "Exit"})
        => issue_number[r] =
             (IF Eligible(issues) = {} THEN None
              ELSE CHOOSE i \in Eligible(issues) : \A j \in Eligible(issues) : i <= j)

\* a run that took the clean exit did nothing but list the issues
CleanExit(r) ==
    pc[r] = "Exit" =>
        /\ calls[r] = <<"list_issues">>
        /\ issue_number[r] = None
        /\ raised[r] = NoErr
        /\ err[r] = NoErr
        /\ tree[r] = InitTree
        /\ \A i \in 1..Len(comments) : comments[i].by # r
        /\ \A j \in 1..Len(pulls) : pulls[j].by # r

\* C10: the selection step changes nothing in the tracker or the working
\* tree; when the listing answers and no item is eligible the run goes to
\* the clean exit (nothing raised), having made no other call.
C10_SelectionChangesNothing ==
    /\ [](\A r \in Runs : CleanExit(r))
    /\ [][\A r \in Runs :
            (pc[r] = "Idle" /\ pc'[r] # "Idle")
            => /\ issues' = issues
               /\ comments' = comments
               /\ pulls' = pulls
               /\ tree' = tree
               /\ (Eligible(issues) = {} /\ raised'[r] = NoErr)
                  => pc'[r] = "Exit"]_vars

C10_Witness ==
    \E r \in Runs :
        /\ pc[r] = "Exit"
        /\ Len(issues) = 2
        /\ issues[1].labels = {AGENT_LABEL, IN_PROGRESS_LABEL}
        /\ issues[2].pull_request

----------------------------------------------------------------------------
(* The handler, the publish chain, concurrent runs *)

\* C11: the error that leaves a run whose handler ran is the error the
\* handler caught, also when the failure comment itself failed.
C11_OriginalErrorLeaves ==
    \A r \in Runs :
        (pc[r] = "Raised" /\ err[r] # NoErr) => raised[r] = err[r]

\* the calls of s that are in the set steps, in order
RECURSIVE Project(_, _)
Project(s, steps) ==
    IF s = <<>> THEN <<>>
    ELSE (IF Head(s) \in steps THEN <<Head(s)>> ELSE <<>>)
         \o Project(Tail(s), steps)

IsPrefix(s, t) == Len(s) <= Len(t) /\ \A i \in 1..Len(s) : s[i] = t[i]

PublishChain == <<"git_checkout", "git_add", "git_commit", "git_push", "open_pr">>

\* C12: the publish steps a run has executed are an initial part of the
\* chain branch creation, stage-all, commit, push, openRequest, each executed
\* once; a step that raised is the last one executed, and open_pr is called
\* only after git push returned.
C12_PublishChain ==
    \A r \in Runs :
        LET done == Project(calls[r], PublishSteps) IN
        /\ IsPrefix(done, PublishChain)
        /\ err[r].at \in PublishSteps
           => (done # <<>> /\ done[Len(done)] = err[r].at)
        /\ Has(calls[r], "open_pr")
           => (Has(calls[r], "git_push") /\ err[r].at # "git_push")

C12_Witness ==
    \E r \in Runs :
        /\ pc[r] = "Raised"
        /\ err[r].at = "git_commit"
        /\ Project(calls[r], PublishSteps) = <<"git_checkout", "git_add", "git_commit">>

\* C13: a run whose unlock was answered "not found" goes on to the failure
\* comment and ends re-raising the error it caught; the labels of the item
\* are as the DELETE found them.
C13_NotFoundIsSuccess ==
    \A r \in Runs :
        Has(calls[r], "not_found")
        => /\ pc[r] \in {"FailComment", "Raised"}
           /\ pc[r] = "Raised"
              => (Has(calls[r], "comment_failure") /\ raised[r] = err[r])

\* C14: a run selects an item only while the lock label is not on it, and its
\* add of the label goes through whether or not the label is already there;
\* so two runs hold the same item exactly when both selected it before either
\* added the label, and nothing stops either of them afterwards.
C14_AdvisoryLock ==
    [][\A r \in Runs :
        /\ (pc[r] = "Idle" /\ pc'[r] = "Lock")
           => (issue_number'[r] \in Eligible(issues) /\ issues' = issues)
        /\ (pc[r] = "Lock" /\ pc'[r] = "Notify")
           => /\ Locked(issue_number[r])'
              /\ \A q \in Runs : q # r => pc'[q] = pc[q]]_vars

\* both runs took the same item and both opened a pull request for it
C14_Witness ==
    /\ pc[1] = "Done"
    /\ pc[2] = "Done"
    /\ issue_number[1] = issue_number[2]
    /\ \E i, j \in 1..Len(pulls) : pulls[i].by = 1 /\ pulls[j].by = 2
    /\ ~Has(calls[1], "remove_label")
    /\ ~Has(calls[2], "remove_label")

\* run r is between Locked and Publishing
Processing(r) ==
    pc[r] \in {"Notify", "Generate", "Plan", "GitConfig", "GitConfigEmail",
               "Checkout", "Apply", "GitAdd", "Commit", "Push", "OpenPR"}

\* C19 as stated: the lock label is on the item of every run that is between
\* Locked and Publishing.
C19_LockedWhileProcessing ==
    \A r \in Runs : Processing(r) => Locked(issue_number[r])

\* C19 amended: the lock label is on the item of every run that is between
\* Locked and Publishing as long as no run that took this item has called
\* unlock.
C19_LockedUntilSomeUnlock ==
    \A r \in Runs :
        (Processing(r)
         /\ \A q \in Runs : issue_number[q] = issue_number[r]
                            => ~Has(calls[q], "remove_label"))
        => Locked(issue_number[r])

C19_Witness ==
    /\ Processing(1)
    /\ Processing(2)
    /\ issue_number[1] = issue_number[2]
    /\ Locked(issue_number[1])

----------------------------------------------------------------------------
(* Change applier *)

\* the last entry of changes whose path, seen through norm, is p
LastFor(changes, p, norm(_)) ==
    CHOOSE i \in 1..Len(changes) :
        /\ norm(changes[i].path) = p
        /\ \A j \in 1..Len(changes) : norm(changes[j].path) = p => j <= i

\* after is before with every named path holding the content of its last
\* entry, and nothing else written
LastWriteWins(before, after, changes, norm(_)) ==
    LET named == {norm(changes[i].path) : i \in 1..Len(changes)} IN
    /\ DOMAIN after = DOMAIN before \cup named
    /\ \A p \in named : after[p] = changes[LastFor(changes, p, norm)].content
    /\ \A p \in DOMAIN before \ named : after[p] = before[p]

AsWritten(path) == path

Applied(r) == pc[r] = "Apply" /\ pc'[r] = "GitAdd"

----------------------------------------------------------------------------
(* Termination *)

Ended(r) == pc[r] \in {"Off", "Exit", "Done", "Raised"}

\* calls a run makes at most once (all but the model request and its sleep)
OnceCalls ==
    {"list_issues", "add_labels", "comment_start", "git_config_name",
     "git_config_email", "git_checkout", "apply", "git_add", "git_commit",
     "git_push", "open_pr", "comment_success", "remove_label",
     "comment_failure"}

\* C16: every run ends, in the clean exit, in Done or raising; it sends at
\* most 8 model requests and makes every other call at most once; it takes
\* one item at most, and changes the labels of no other item.
C16_RunTerminates ==
    /\ <>(\A r \in Runs : Ended(r))
    /\ [](\A r \in Runs :
            /\ Requests(r) <= 8
            /\ \A name \in OnceCalls : Count(calls[r], name) <= 1)
    /\ [][\A r \in Runs :
            /\ issue_number[r] # None => issue_number'[r] = issue_number[r]
            /\ pc'[r] # pc[r]
               => \A n \in 1..Len(issues) :
                    n # issue_number'[r] => issues'[n] = issues[n]]_vars

C16_Witness ==
    \E r \in Runs :
        /\ pc[r] = "Done"
        /\ apiFailures[r] = 7
        /\ Count(calls[r], "sleep") = 7
        /\ Len(issues) = 2
        /\ issue_number[r] = 1

----------------------------------------------------------------------------

VcsCalls == {"git_config_name", "git_config_email", "git_checkout",
             "git_add", "git_commit", "git_push"}

\* the position of the first call of s that is in `names` (0: none)
FirstOf(s, names) ==
    IF \E i \in 1..Len(s) : s[i] \in names
    THEN CHOOSE i \in 1..Len(s) :
            s[i] \in names /\ \A j \in 1..(i - 1) : s[j] \notin names
    ELSE 0

\* the steps of main() other than the model requests, in the order of the code
MainChain == <<"list_issues", "add_labels", "comment_start",
               "git_config_name", "git_config_email", "git_checkout", "apply",
               "git_add", "git_commit", "git_push", "open_pr",
               "comment_success">>

Range(s) == {s[i] : i \in 1..Len(s)}

GenerationCalls == {"openai", "sleep"}

----------------------------------------------------------------------------

\* C18: a run whose generation failed (retries exhausted, non-retryable
\* status, unparseable text, missing field) has written no file, has run no
\* version-control command and has opened no pull request, up to and through
\* its failure unwind.
C18_FailedGenerationTouchesNothing ==
    \A r \in Runs :
        GenerationFailed(r)
        => /\ tree[r] = InitTree
           /\ \A i \in 1..Len(calls[r]) :
                 calls[r][i] \notin VcsCalls \cup {"apply", "open_pr"}
           /\ \A i \in 1..Len(pulls) : pulls[i].by # r
           /\ pr_url[r] = ""

\* a plan without one of the required fields, after the unwind
C18_Witness ==
    \E r \in Runs :
        /\ pc[r] = "Raised"
        /\ err[r] = [name |-> "KeyError", at |-> "plan"]
        /\ plan[r] # NoPlan
        /\ ~(RequiredFields \subseteq DOMAIN plan[r])
        /\ Has(calls[r], "comment_failure")

----------------------------------------------------------------------------

\* the retryable answers a run has received so far
RetryableAnswers(r) == Min(Requests(r), apiFailures[r])

\* C20: a backoff wait follows every retryable answer, the answer to the 8th
\* attempt included: a run has slept once per retryable answer it received,
\* each sleep directly after the request it belongs to; when all 8 attempts
\* are answered 429/5xx the run has made 8 requests and 8 waits, the last
\* model-client event before the exhaustion error is a wait, and raising the
\* error sends no request.
C20_WaitAfterEveryRetryable ==
    /\ [](\A r \in Runs :
            /\ Sleeps(r) = RetryableAnswers(r)
            /\ \A i \in 1..Len(calls[r]) :
                  calls[r][i] = "sleep" => (i > 1 /\ calls[r][i - 1] = "openai")
            /\ err[r] = [name |-> "RuntimeError", at |-> "openai"]
               => LET gen == Project(calls[r], GenerationCalls) IN
                  /\ Requests(r) = 8
                  /\ Sleeps(r) = 8
                  /\ Len(gen) = 16
                  /\ gen[16] = "sleep"
                  /\ gen[15] = "openai")
    /\ [][\A r \in Runs :
            (err[r] = NoErr /\ err'[r] = [name |-> "RuntimeError", at |-> "openai"])
            => /\ calls'[r] = calls[r]
               /\ Sleeps(r) = 8
               /\ attempt[r] = 8 + 1]_vars

\* all 8 attempts answered 429/5xx: the handler runs right after the 8th wait
C20_Witness ==
    \E r \in Runs :
        /\ pc[r] = "FailComment"
        /\ err[r] = [name |-> "RuntimeError", at |-> "openai"]
        /\ apiFailures[r] = 8
        /\ Sleeps(r) = 8
        /\ Requests(r) = 8
        /\ FirstOf(calls[r], {"remove_label"}) > 1
        /\ calls[r][FirstOf(calls[r], {"remove_label"}) - 1] = "sleep"

====
